---- MODULE Spec2Model ----
(***************************************************************************)
(* VATNumberValidator of internationalflavor/vat_number/validators.py.     *)
(*                                                                         *)
(* A string is a sequence of one-character strings.  A validator is built  *)
(* once (Init is the state after __init__) and then called; each call is   *)
(* run one step of __call__ at a time by a caller (a thread).              *)
(***************************************************************************)
EXTENDS Integers, Sequences, FiniteSets, TLC

VARIABLES
    eu_only,            \* __init__ argument eu_only
    include_countries,  \* __init__ argument include_countries (None or a list)
    regexes,            \* self.regexes
    vies_check,         \* self.vies_check
    included_countries, \* self.included_countries
    _suds_exception,    \* self._suds_exception
    pc,                 \* per caller: the step of __call__ it is about to run
    value,              \* per caller: the argument of __call__
    country,            \* per caller: local variable country
    rest,               \* per caller: local variable rest
    result,             \* per caller: how the call ended
    evaluated,          \* per caller: the steps of __call__ run so far, in order
    remote_calls,       \* per caller: invocations of checkVat in this call
    remote_outcome      \* per caller: what the registry did in this call

vars == <<eu_only, include_countries, regexes, vies_check, included_countries,
          _suds_exception, pc, value, country, rest, result, evaluated,
          remote_calls, remote_outcome>>

validator == <<regexes, vies_check, included_countries, _suds_exception>>
ctor_args == <<eu_only, include_countries>>

----------------------------------------------------------------------------
(* Bounds of the enumerated inputs *)

\* NL remainders 000000000 .. MaxNL (nine digits, zero padded)
MaxNL == 12
\* BE first-eight-digit values 0 .. MaxA
MaxA == 2

----------------------------------------------------------------------------
(* Python values *)

\* Python's None: an atom different from every string and every list used here
None == <<"None">>

Callers == {"t1", "t2"}

DigitSeq == <<"0", "1", "2", "3", "4", "5", "6", "7", "8", "9">>
Digits == {DigitSeq[i] : i \in 1..10}
Upper == {"A", "B", "C", "D", "E", "F", "G", "H", "I", "J", "K", "L", "M",
          "N", "O", "P", "Q", "R", "S", "T", "U", "V", "W", "X", "Y", "Z"}

DigitChar(d) == DigitSeq[d + 1]
DigitVal(c) == (CHOOSE i \in 1..10 : DigitSeq[i] = c) - 1

AllIn(s, S) == \A i \in 1..Len(s) : s[i] \in S

Min(a, b) == IF a < b THEN a ELSE b

\* s[a:b] for 0 <= a <= b
Slice(s, a, b) == SubSeq(s, a + 1, Min(b, Len(s)))

\* s[a:]
SliceFrom(s, a) == SubSeq(s, a + 1, Len(s))

\* What "$" allows: the end of the string, or just before a newline that ends it
DollarCores(s) ==
    {s} \cup (IF Len(s) > 0 /\ s[Len(s)] = "\n"
              THEN {SubSeq(s, 1, Len(s) - 1)} ELSE {})

\* str.strip() of the whitespace int() ignores (only "\n" occurs in the inputs)
RECURSIVE Strip(_)
Strip(s) ==
    IF Len(s) > 0 /\ s[1] = "\n" THEN Strip(Tail(s))
    ELSE IF Len(s) > 0 /\ s[Len(s)] = "\n" THEN Strip(SubSeq(s, 1, Len(s) - 1))
    ELSE s

RECURSIVE DecimalValue(_)
DecimalValue(s) ==
    IF Len(s) = 0 THEN 0
    ELSE 10 * DecimalValue(SubSeq(s, 1, Len(s) - 1)) + DigitVal(s[Len(s)])

\* int(s): the number, or the exception it raises
PyIntOk(s) == Len(Strip(s)) > 0 /\ AllIn(Strip(s), Digits)
PyInt(s) == DecimalValue(Strip(s))

\* n written with w digits (input construction)
RECURSIVE ZeroPad(_, _)
ZeroPad(n, w) ==
    IF w = 0 THEN <<>> ELSE ZeroPad(n \div 10, w - 1) \o <<DigitChar(n % 10)>>

----------------------------------------------------------------------------
(* .data: VAT_NUMBER_REGEXES and EU_VAT_AREA *)

NL == <<"N", "L">>
BE == <<"B", "E">>
DE == <<"D", "E">>
CH == <<"C", "H">>
ZZ == <<"Z", "Z">>

\* EU_VAT_AREA: the country codes of the remote-check region
EU_VAT_AREA == <<BE, DE, NL>>

\* VAT_NUMBER_REGEXES: country code -> n, standing for the pattern ^\d{n}$
VAT_NUMBER_REGEXES == (NL :> 9) @@ (BE :> 10) @@ (DE :> 9) @@ (CH :> 6)

\* re.match(regexes[c], rest) for the pattern ^\d{n}$
RuleMatch(n, r) == \E core \in DollarCores(r) : Len(core) = n /\ AllIn(core, Digits)

----------------------------------------------------------------------------
(* Inputs *)

\* include_countries arguments tried
IncludeOptions == {None, <<>>, <<NL>>, <<ZZ>>, <<CH, BE>>}

NLCandidates ==
    {NL \o ZeroPad(n, 9) : n \in 0..MaxNL}
    \cup {NL \o ZeroPad(12345678, 8) \o <<DigitChar(d)>> : d \in 0..9}
    \cup {NL \o ZeroPad(12345678, 8),               \* eight digits
          NL \o ZeroPad(12345678, 8) \o <<"A">>,    \* a letter
          NL \o ZeroPad(1234567820, 10),            \* ten digits
          NL \o ZeroPad(123456782, 9) \o <<"\n">>}  \* a final newline

BEFirst == (0..MaxA) \cup {96, 97, 98, 194, 12345678}
BELast == {0, 1, 35, 95, 96, 97, 98, 99}

BECandidates ==
    {BE \o ZeroPad(a, 8) \o ZeroPad(b, 2) : a \in BEFirst, b \in BELast}
    \cup {BE \o ZeroPad(196, 9),                    \* nine digits
          BE \o ZeroPad(196, 9) \o <<"X">>,         \* a letter
          BE \o ZeroPad(196, 10) \o <<"\n">>}       \* a final newline

OtherCandidates ==
    {None,
     <<>>,
     <<"1", "2", "3", "4">>,
     NL,
     <<"n", "l">> \o ZeroPad(123456782, 9),
     NL \o ZeroPad(1234, 4) \o <<"-">> \o ZeroPad(56782, 5),
     DE \o ZeroPad(123456789, 9),
     DE \o ZeroPad(12345, 5),
     CH \o ZeroPad(123456, 6),
     CH \o ZeroPad(12, 2),
     ZZ \o ZeroPad(1234567, 7)}

Candidates == NLCandidates \cup BECandidates \cup OtherCandidates

\* The calls two concurrent callers make
ConcCandidates ==
    {None,
     NL \o ZeroPad(123456782, 9),
     BE \o ZeroPad(196, 10),
     BE \o ZeroPad(100, 10),
     CH \o ZeroPad(123456, 6)}

\* What res.valid can be once checkVat has returned: a bool, None, some other
\* object, or no attribute at all
ResponseValid == {"True", "False", "None", "str", "absent"}

\* What Client(...) or checkVat(...) can raise: a SOAP fault, an HTTP error, or
\* the socket timing out after timeout=3
RemoteFaults == {<<"WebFault">>, <<"TransportError">>, <<"socket.timeout">>}

----------------------------------------------------------------------------
(* __init__ *)

\* lines 53-57
InitIncluded(eu, inc) ==
    (IF eu THEN EU_VAT_AREA ELSE <<>>) \o (IF inc # None THEN inc ELSE <<>>)

Idle == [t \in Callers |-> "idle"]
NoValue == [t \in Callers |-> None]
NoString == [t \in Callers |-> <<>>]
NoResult == [t \in Callers |-> "none"]
NoCalls == [t \in Callers |-> 0]
NoOutcome == [t \in Callers |-> <<"none">>]

\* The validator as __init__ leaves it (with vies_check the suds module is
\* installed: otherwise __init__ raises ImproperlyConfigured and there is no
\* validator)
Init ==
    /\ eu_only \in BOOLEAN
    /\ include_countries \in IncludeOptions
    /\ vies_check \in BOOLEAN
    /\ regexes = VAT_NUMBER_REGEXES
    /\ _suds_exception = None
    /\ included_countries = InitIncluded(eu_only, include_countries)
    /\ pc = Idle
    /\ value = NoValue
    /\ country = NoString
    /\ rest = NoString
    /\ result = NoResult
    /\ evaluated = NoString
    /\ remote_calls = NoCalls
    /\ remote_outcome = NoOutcome

----------------------------------------------------------------------------
(* __call__ *)

\* x in xs, for a list xs
InList(x, xs) == \E i \in 1..Len(xs) : xs[i] = x

\* re.match(r"^[A-Z]{2}[A-Z0-9]+$", value)
StructuralMatch(v) ==
    \E core \in DollarCores(v) :
        /\ Len(core) >= 3
        /\ core[1] \in Upper
        /\ core[2] \in Upper
        /\ AllIn(SliceFrom(core, 2), Upper \cup Digits)

\* self.included_countries and country not in self.included_countries
NotAllowed(included, c) == Len(included) > 0 /\ ~InList(c, included)

\* for i in range(8): total += int(rest[i]) * (9 - i)
RECURSIVE NLLoop(_, _, _)
NLLoop(r, i, total) ==
    IF i = 8 THEN [exc |-> "", total |-> total]
    ELSE IF i >= Len(r) THEN [exc |-> "IndexError", total |-> total]
    ELSE IF ~PyIntOk(<<r[i + 1]>>) THEN [exc |-> "ValueError", total |-> total]
    ELSE NLLoop(r, i + 1, total + PyInt(<<r[i + 1]>>) * (9 - i))

\* NLCheck with the ninth digit added instead of subtracted
NLCheck_NinthAdded(r) ==
    LET loop == NLLoop(r, 0, 0) IN
    IF loop.exc # "" THEN loop.exc
    ELSE IF 8 >= Len(r) THEN "IndexError"
    ELSE IF ~PyIntOk(<<r[9]>>) THEN "ValueError"
    ELSE IF (loop.total + PyInt(<<r[9]>>)) % 11 # 0 THEN "fail"
    ELSE "pass"

\* The NL branch: "pass", "fail", or the exception that leaves it
NLCheck(r) ==
    LET loop == NLLoop(r, 0, 0) IN
    IF loop.exc # "" THEN loop.exc
    ELSE IF 8 >= Len(r) THEN "IndexError"
    ELSE IF ~PyIntOk(<<r[9]>>) THEN "ValueError"
    ELSE IF (loop.total - PyInt(<<r[9]>>)) % 11 # 0 THEN "fail"
    ELSE "pass"

\* BECheck comparing the remainder mod 97 itself with the check digits
BECheck_NoComplement(r) ==
    IF ~PyIntOk(Slice(r, 0, 8)) \/ ~PyIntOk(Slice(r, 8, 10)) THEN "ValueError"
    ELSE IF (PyInt(Slice(r, 0, 8)) % 97) # PyInt(Slice(r, 8, 10)) THEN "fail"
    ELSE "pass"

\* The BE branch: "pass", "fail", or the exception that leaves it
BECheck(r) ==
    IF ~PyIntOk(Slice(r, 0, 8)) \/ ~PyIntOk(Slice(r, 8, 10)) THEN "ValueError"
    ELSE IF (97 - (PyInt(Slice(r, 0, 8)) % 97)) # PyInt(Slice(r, 8, 10)) THEN "fail"
    ELSE "pass"

\* The outcome of a branch as the way the call goes on
CheckResult(check) == IF check = "fail" THEN "InvalidForCountry" ELSE check

\* ViesApplies without the vies_check flag
ViesApplies_FlagIgnored(vc, c) == InList(c, EU_VAT_AREA)

\* self.vies_check and country in EU_VAT_AREA
ViesApplies(vc, c) == vc /\ InList(c, EU_VAT_AREA)

\* Caught as a bare except
Caught_Everything(e) == TRUE

\* except (suds.WebFault, suds.transport.TransportError)
Caught(e) == e \in {<<"WebFault">>, <<"TransportError">>}

\* valid = res.valid is not False
IsNotFalse(v) == v # "False"

Finish(t, r) ==
    /\ result' = [result EXCEPT ![t] = r]
    /\ pc' = [pc EXCEPT ![t] = "done"]

Ran(t, steps) == evaluated' = [evaluated EXCEPT ![t] = @ \o steps]

\* lines 59-62: the call starts; None is returned at once
Call(t, v) ==
    /\ pc[t] = "idle"
    /\ value' = [value EXCEPT ![t] = v]
    /\ IF v = None
       THEN Finish(t, "Success")
       ELSE /\ pc' = [pc EXCEPT ![t] = "structural"]
            /\ UNCHANGED result
    /\ UNCHANGED <<ctor_args, validator, country, rest, evaluated, remote_calls,
                   remote_outcome>>

\* lines 64-69
StructuralCheck(t) ==
    /\ pc[t] = "structural"
    /\ Ran(t, <<"structural">>)
    /\ IF ~StructuralMatch(value[t])
       THEN /\ Finish(t, "MalformedInput")
            /\ UNCHANGED <<country, rest>>
       ELSE /\ country' = [country EXCEPT ![t] = Slice(value[t], 0, 2)]
            /\ rest' = [rest EXCEPT ![t] = SliceFrom(value[t], 2)]
            /\ pc' = [pc EXCEPT ![t] = "allowlist"]
            /\ UNCHANGED result
    /\ UNCHANGED <<ctor_args, validator, value, remote_calls, remote_outcome>>

\* AllowListCheck with the table lookup moved in front of it
AllowListCheck_LookupFirst(t) ==
    /\ pc[t] = "allowlist"
    /\ IF country[t] \notin DOMAIN regexes
       THEN /\ Ran(t, <<"recognition">>)
            /\ Finish(t, "UnknownCountry")
       ELSE /\ Ran(t, <<"allowlist">>)
            /\ IF NotAllowed(included_countries, country[t])
               THEN Finish(t, "CountryNotAllowed")
               ELSE /\ pc' = [pc EXCEPT ![t] = "syntax"]
                    /\ UNCHANGED result
    /\ UNCHANGED <<ctor_args, validator, value, country, rest, remote_calls,
                   remote_outcome>>

\* lines 71-72
AllowListCheck(t) ==
    /\ pc[t] = "allowlist"
    /\ Ran(t, <<"allowlist">>)
    /\ IF NotAllowed(included_countries, country[t])
       THEN Finish(t, "CountryNotAllowed")
       ELSE /\ pc' = [pc EXCEPT ![t] = "syntax"]
            /\ UNCHANGED result
    /\ UNCHANGED <<ctor_args, validator, value, country, rest, remote_calls,
                   remote_outcome>>

\* SyntaxCheck with the KeyError reported as the country's failure
SyntaxCheck_KeyErrorMerged(t) ==
    /\ pc[t] = "syntax"
    /\ IF country[t] \notin DOMAIN regexes
       THEN /\ Ran(t, <<"recognition">>)
            /\ Finish(t, "InvalidForCountry")
       ELSE /\ Ran(t, <<"recognition", "syntax">>)
            /\ IF ~RuleMatch(regexes[country[t]], rest[t])
               THEN Finish(t, "InvalidForCountry")
               ELSE /\ pc' = [pc EXCEPT ![t] = "checksum"]
                    /\ UNCHANGED result
    /\ UNCHANGED <<ctor_args, validator, value, country, rest, remote_calls,
                   remote_outcome>>

\* lines 74-80: self.regexes[country] raises KeyError before re.match is called
SyntaxCheck(t) ==
    /\ pc[t] = "syntax"
    /\ IF country[t] \notin DOMAIN regexes
       THEN /\ Ran(t, <<"recognition">>)
            /\ Finish(t, "UnknownCountry")
       ELSE /\ Ran(t, <<"recognition", "syntax">>)
            /\ IF ~RuleMatch(regexes[country[t]], rest[t])
               THEN Finish(t, "InvalidForCountry")
               ELSE /\ pc' = [pc EXCEPT ![t] = "checksum"]
                    /\ UNCHANGED result
    /\ UNCHANGED <<ctor_args, validator, value, country, rest, remote_calls,
                   remote_outcome>>

\* lines 82-93
CountryChecks(t) ==
    /\ pc[t] = "checksum"
    /\ LET check == IF country[t] = NL THEN NLCheck(rest[t])
                    ELSE IF country[t] = BE THEN BECheck(rest[t])
                    ELSE "pass"
       IN /\ IF country[t] \in {NL, BE}
             THEN Ran(t, <<"checksum">>)
             ELSE UNCHANGED evaluated
          /\ IF check # "pass"
             THEN Finish(t, CheckResult(check))
             ELSE /\ pc' = [pc EXCEPT ![t] = "vies"]
                  /\ UNCHANGED result
    /\ UNCHANGED <<ctor_args, validator, value, country, rest, remote_calls,
                   remote_outcome>>

\* lines 95-108, checkVat returns res
ViesResponse(t, v) ==
    /\ pc[t] = "vies"
    /\ ViesApplies(vies_check, country[t])
    /\ Ran(t, <<"remote">>)
    /\ remote_calls' = [remote_calls EXCEPT ![t] = @ + 1]
    /\ remote_outcome' = [remote_outcome EXCEPT ![t] = <<"response", v>>]
    /\ IF v = "absent" THEN Finish(t, "AttributeError")
       ELSE IF ~IsNotFalse(v) THEN Finish(t, "NotRegistered")
       ELSE Finish(t, "Success")
    /\ UNCHANGED <<ctor_args, validator, value, country, rest>>

\* lines 95-108, Client(...) or checkVat(...) raises e
ViesFault(t, e) ==
    /\ pc[t] = "vies"
    /\ ViesApplies(vies_check, country[t])
    /\ Ran(t, <<"remote">>)
    /\ remote_calls' = [remote_calls EXCEPT ![t] = @ + 1]
    /\ remote_outcome' = [remote_outcome EXCEPT ![t] = <<"raise", e[1]>>]
    /\ IF Caught(e)
       THEN /\ _suds_exception' = e
            /\ Finish(t, "Success")
       ELSE /\ Finish(t, e[1])
            /\ UNCHANGED _suds_exception
    /\ UNCHANGED <<ctor_args, regexes, vies_check, included_countries,
                   value, country, rest>>

\* line 96 is false: the call returns
ViesSkip(t) ==
    /\ pc[t] = "vies"
    /\ ~ViesApplies(vies_check, country[t])
    /\ Finish(t, "Success")
    /\ UNCHANGED <<ctor_args, validator, value, country, rest, evaluated,
                   remote_calls, remote_outcome>>

\* The caller has the outcome; its frame is gone
Return(t) ==
    /\ pc[t] = "done"
    /\ pc' = [pc EXCEPT ![t] = "idle"]
    /\ value' = [value EXCEPT ![t] = None]
    /\ country' = [country EXCEPT ![t] = <<>>]
    /\ rest' = [rest EXCEPT ![t] = <<>>]
    /\ result' = [result EXCEPT ![t] = "none"]
    /\ evaluated' = [evaluated EXCEPT ![t] = <<>>]
    /\ remote_calls' = [remote_calls EXCEPT ![t] = 0]
    /\ remote_outcome' = [remote_outcome EXCEPT ![t] = <<"none">>]
    /\ UNCHANGED <<ctor_args, validator>>

Step(t, inputs) ==
    \/ \E v \in inputs : Call(t, v)
    \/ StructuralCheck(t)
    \/ AllowListCheck(t)
    \/ SyntaxCheck(t)
    \/ CountryChecks(t)
    \/ \E v \in ResponseValid : ViesResponse(t, v)
    \/ \E e \in RemoteFaults : ViesFault(t, e)
    \/ ViesSkip(t)
    \/ Return(t)

\* One caller, one call after another
Next == Step("t1", Candidates)

Spec == Init /\ [][Next]_vars

\* Two callers sharing the validator, their calls interleaved step by step
NextConc == \E t \in Callers : Step(t, ConcCandidates)

SpecConc == Init /\ [][NextConc]_vars

----------------------------------------------------------------------------
(* Vocabulary of the properties *)

Done(t) == pc[t] = "done"

\* The caller has run the named step of its current call
HasRun(t, step) == InList(step, evaluated[t])

ListSet(xs) == {xs[i] : i \in 1..Len(xs)}

\* The set the allow-list step is specified to test membership in
AllowedUnion ==
    (IF eu_only THEN ListSet(EU_VAT_AREA) ELSE {})
    \cup (IF include_countries # None THEN ListSet(include_countries) ELSE {})

\* A remainder of exactly n decimal digits
ExactDigits(r, n) == Len(r) = n /\ AllIn(r, Digits)

ExpectedDigits(c) == IF c = NL THEN 9 ELSE 10

----------------------------------------------------------------------------
(* C1 *)

\* C1: whenever a call's registry request ended in a fault (it raised instead
\* of returning), the call has ended with success: no failure and no
\* exception reaches the caller.
C1_FaultedRemoteCallSucceeds ==
    \A t \in Callers :
        Done(t) /\ remote_outcome[t][1] = "raise" => result[t] = "Success"

----------------------------------------------------------------------------
(* C3 *)

\* C3: once the allow-list step has run, then if eu_only is true or
\* include_countries is set (to any list, the empty one included) the step
\* passed exactly when the country code is in the union of the EU VAT area
\* (when eu_only) and include_countries (when set); when neither is given
\* the step passed.
C3_AllowListIsMembershipInUnion ==
    \A t \in Callers :
        HasRun(t, "allowlist") =>
            IF eu_only \/ include_countries # None
            THEN result[t] # "CountryNotAllowed" <=> country[t] \in AllowedUnion
            ELSE result[t] # "CountryNotAllowed"

----------------------------------------------------------------------------
(* C6 *)

\* C6: an NL or BE call that ran the checksum step on a remainder that is not
\* exactly 9 (NL) or 10 (BE) decimal digits has ended with InvalidForCountry:
\* never with another error, never with success.
C6_BadRemainderIsInvalidForCountry ==
    \A t \in Callers :
        /\ Done(t) /\ HasRun(t, "checksum")
        /\ country[t] \in {NL, BE}
        /\ ~ExactDigits(rest[t], ExpectedDigits(country[t]))
        => result[t] = "InvalidForCountry"

----------------------------------------------------------------------------
(* C7 *)

\* C7: when the registry request returned a response, the call has ended with
\* NotRegistered exactly when the response's valid field is False, and with
\* success for every other response (True, None, another object, no field).
C7_OnlyExplicitFalseRejects ==
    \A t \in Callers :
        Done(t) /\ remote_outcome[t][1] = "response" =>
            IF remote_outcome[t][2] = "False"
            THEN result[t] = "NotRegistered"
            ELSE result[t] = "Success"

----------------------------------------------------------------------------
(* C2 *)

StepOrder == <<"structural", "allowlist", "recognition", "syntax", "checksum",
               "remote">>
StepIndex(step) == CHOOSE i \in 1..Len(StepOrder) : StepOrder[i] = step

\* The steps run are distinct steps of StepOrder, in its order
InOrder(steps) ==
    \A i, j \in 1..Len(steps) :
        i < j => StepIndex(steps[i]) < StepIndex(steps[j])

\* The earliest local step that candidate v fails under this validator, or
\* "none"
FirstFailing(v) ==
    LET c == Slice(v, 0, 2)
        r == SliceFrom(v, 2)
    IN  IF ~StructuralMatch(v) THEN "structural"
        ELSE IF NotAllowed(included_countries, c) THEN "allowlist"
        ELSE IF c \notin DOMAIN regexes THEN "recognition"
        ELSE IF ~RuleMatch(regexes[c], r) THEN "syntax"
        ELSE IF c = NL /\ NLCheck(r) # "pass" THEN "checksum"
        ELSE IF c = BE /\ BECheck(r) # "pass" THEN "checksum"
        ELSE "none"

\* The failure kind each step reports
KindOf(step) ==
    CASE step = "structural" -> "MalformedInput"
      [] step = "allowlist" -> "CountryNotAllowed"
      [] step = "recognition" -> "UnknownCountry"
      [] step = "syntax" -> "InvalidForCountry"
      [] step = "checksum" -> "InvalidForCountry"
      [] step = "remote" -> "NotRegistered"

LocalFailures == {"MalformedInput", "CountryNotAllowed", "UnknownCountry",
                  "InvalidForCountry"}

Last(steps) == steps[Len(steps)]

\* The steps run in the fixed order; a call that has a failing local step ends
\* at the earliest one, with that step's failure kind and nothing run after
\* it; a call with none reports no local failure, and NotRegistered comes from
\* the remote step, run last.
StepsShortCircuitInOrder ==
    \A t \in Callers :
        /\ InOrder(evaluated[t])
        /\ ~Done(t) => result[t] = "none"
        /\ Done(t) /\ value[t] # None =>
              LET ff == FirstFailing(value[t]) IN
              /\ ff # "none" =>
                    /\ result[t] = KindOf(ff)
                    /\ Last(evaluated[t]) = ff
                    /\ remote_calls[t] = 0
              /\ ff = "none" => result[t] \notin LocalFailures
              /\ result[t] = "NotRegistered" => Last(evaluated[t]) = "remote"

\* The call of caller t has ended at the allow-list step
RejectedAtAllowList(t) ==
    /\ result[t] = "CountryNotAllowed"
    /\ evaluated[t] = <<"structural", "allowlist">>

\* C2 as stated: the order and short-circuit above, and with eu_only every
\* structurally valid candidate whose code is outside the EU VAT area ends at
\* the allow-list step with CountryNotAllowed.
C2_OrderAndEuOnlyRejectsNonEu ==
    /\ StepsShortCircuitInOrder
    /\ \A t \in Callers :
          /\ Done(t) /\ value[t] # None /\ eu_only
          /\ StructuralMatch(value[t])
          /\ Slice(value[t], 0, 2) \notin ListSet(EU_VAT_AREA)
          => RejectedAtAllowList(t)

\* C2 (amended): the order and short-circuit above, and with eu_only every
\* structurally valid candidate whose code is outside the EU VAT area and not
\* listed in include_countries ends at the allow-list step with
\* CountryNotAllowed.
C2_OrderAndEuOnlyRejectsUnlistedNonEu ==
    /\ StepsShortCircuitInOrder
    /\ \A t \in Callers :
          /\ Done(t) /\ value[t] # None /\ eu_only
          /\ StructuralMatch(value[t])
          /\ Slice(value[t], 0, 2) \notin AllowedUnion
          => RejectedAtAllowList(t)

\* A known non-EU code with a remainder its rule rejects, stopped at the
\* allow-list step under eu_only
C2_Witness ==
    \E t \in Callers :
        /\ Done(t) /\ eu_only
        /\ value[t] = CH \o ZeroPad(12, 2)
        /\ RejectedAtAllowList(t)

----------------------------------------------------------------------------
(* C4 *)

D(r, i) == DigitVal(r[i])

\* 9*d0 + 8*d1 + ... + 2*d7 - d8
NLWeightedSum(r) ==
    9 * D(r, 1) + 8 * D(r, 2) + 7 * D(r, 3) + 6 * D(r, 4) + 5 * D(r, 5)
    + 4 * D(r, 6) + 3 * D(r, 7) + 2 * D(r, 8) - D(r, 9)

\* The checksum step has run and let the call go on
ChecksumPassed(t) ==
    /\ HasRun(t, "checksum")
    /\ result[t] \notin {"InvalidForCountry", "IndexError", "ValueError"}

\* The checksum step has run and ended the call with InvalidForCountry
ChecksumFailed(t) ==
    /\ HasRun(t, "checksum")
    /\ Done(t) /\ result[t] = "InvalidForCountry"

NLRuleIsWeightedSum ==
    \A t \in Callers :
        country[t] = NL /\ HasRun(t, "checksum") /\ ExactDigits(rest[t], 9) =>
            /\ ChecksumPassed(t) <=> NLWeightedSum(rest[t]) % 11 = 0
            /\ ~ChecksumPassed(t) => ChecksumFailed(t)

\* A call for candidate v that reached the checksum step passed it, and
\* succeeded when no remote check is configured
Validates(v) ==
    \A t \in Callers :
        value[t] = v /\ HasRun(t, "checksum") =>
            /\ ChecksumPassed(t)
            /\ Done(t) /\ ~vies_check => result[t] = "Success"

\* A call for candidate v that reached the checksum step failed there
FailsChecksum(v) ==
    \A t \in Callers :
        value[t] = v /\ HasRun(t, "checksum") => ChecksumFailed(t)

\* C4 as stated: a 9-digit NL remainder passes the checksum step iff
\* (sum of d[i]*(9-i) for i in 0..7, minus d[8]) mod 11 = 0; NL123456789
\* validates and NL123456780 fails with InvalidForCountry.
C4_NL123456789Validates ==
    /\ NLRuleIsWeightedSum
    /\ Validates(NL \o ZeroPad(123456789, 9))
    /\ FailsChecksum(NL \o ZeroPad(123456780, 9))

\* C4 (amended): a 9-digit NL remainder passes the checksum step iff
\* (sum of d[i]*(9-i) for i in 0..7, minus d[8]) mod 11 = 0; remainder
\* 123456782 passes it and the call validates, NL123456789 and NL123456780
\* fail with InvalidForCountry.
C4_NL123456782Validates ==
    /\ NLRuleIsWeightedSum
    /\ Validates(NL \o ZeroPad(123456782, 9))
    /\ FailsChecksum(NL \o ZeroPad(123456789, 9))
    /\ FailsChecksum(NL \o ZeroPad(123456780, 9))

C4_Witness ==
    \E t \in Callers :
        /\ Done(t) /\ result[t] = "Success"
        /\ value[t] = NL \o ZeroPad(123456782, 9)
        /\ HasRun(t, "checksum")

----------------------------------------------------------------------------
(* C5 *)

\* The first eight digits as an integer
BEFirstEight(r) ==
    10000000 * D(r, 1) + 1000000 * D(r, 2) + 100000 * D(r, 3) + 10000 * D(r, 4)
    + 1000 * D(r, 5) + 100 * D(r, 6) + 10 * D(r, 7) + D(r, 8)

\* The last two digits as an integer
BELastTwo(r) == 10 * D(r, 9) + D(r, 10)

\* C5: a 10-digit BE remainder with first eight digits A and last two digits
\* B passes the checksum step iff 97 - (A mod 97) = B, also when A mod 97 = 0,
\* and otherwise fails with InvalidForCountry; 0000000196 passes and
\* 0000000100 fails.
C5_BEModulus97 ==
    /\ \A t \in Callers :
          country[t] = BE /\ HasRun(t, "checksum") /\ ExactDigits(rest[t], 10) =>
              /\ ChecksumPassed(t)
                    <=> 97 - (BEFirstEight(rest[t]) % 97) = BELastTwo(rest[t])
              /\ ~ChecksumPassed(t) => ChecksumFailed(t)
    /\ Validates(BE \o ZeroPad(196, 10))
    /\ FailsChecksum(BE \o ZeroPad(100, 10))

\* A mod 97 = 0: remainder 0000009797 passes and the call succeeds
C5_Witness ==
    \E t \in Callers :
        /\ Done(t) /\ result[t] = "Success"
        /\ value[t] = BE \o ZeroPad(9797, 10)
        /\ HasRun(t, "checksum")

----------------------------------------------------------------------------
(* C8 *)

\* The call is for a structurally valid candidate whose code has no rule
UnknownCode(t) ==
    /\ Done(t) /\ value[t] # None
    /\ StructuralMatch(value[t])
    /\ Slice(value[t], 0, 2) \notin DOMAIN regexes

\* C8 as stated: every structurally valid candidate whose country code is not
\* a key of the rule table fails with UnknownCountry.
C8_UnknownCodeFailsUnknownCountry ==
    \A t \in Callers : UnknownCode(t) => result[t] = "UnknownCountry"

\* C8 (amended): every structurally valid candidate whose country code is not
\* a key of the rule table and is not rejected by the allow-list step fails
\* with UnknownCountry, at the table lookup, before any pattern is matched;
\* one the allow-list step rejects fails with CountryNotAllowed.
C8_AllowedUnknownCodeFailsUnknownCountry ==
    \A t \in Callers :
        UnknownCode(t) =>
            IF NotAllowed(included_countries, Slice(value[t], 0, 2))
            THEN result[t] = "CountryNotAllowed"
            ELSE /\ result[t] = "UnknownCountry"
                 /\ Last(evaluated[t]) = "recognition"
                 /\ ~HasRun(t, "syntax")

C8_Witness ==
    \E t \in Callers :
        /\ UnknownCode(t)
        /\ value[t] = ZZ \o ZeroPad(1234567, 7)
        /\ result[t] = "UnknownCountry"

----------------------------------------------------------------------------
(* C9 *)

\* C9 as stated: no step of any call, in any interleaving, changes a field of
\* the validator.
C9_NoCallWritesTheValidator == [][UNCHANGED validator]_vars

\* C9 (amended): no step of any call changes regexes, vies_check or
\* included_countries; _suds_exception is written only by a call whose
\* registry request raised WebFault or TransportError, which stores that
\* exception there, where it outlives the call.
C9_OnlyCaughtFaultIsStored ==
    [][/\ UNCHANGED <<regexes, vies_check, included_countries>>
       /\ _suds_exception' # _suds_exception =>
             \E t \in Callers :
                 /\ pc[t] = "vies" /\ pc'[t] = "done"
                 /\ remote_outcome'[t][1] = "raise"
                 /\ remote_outcome'[t][2] \in {"WebFault", "TransportError"}
                 /\ _suds_exception' = <<remote_outcome'[t][2]>>
                 /\ result'[t] = "Success"]_vars

\* A fault stored by one call is there while another call is under way
C9_Witness ==
    \E t, u \in Callers :
        /\ t # u
        /\ _suds_exception # None
        /\ pc[t] = "idle"
        /\ pc[u] \notin {"idle", "done"}
        /\ remote_outcome[u] = <<"none">>

----------------------------------------------------------------------------
(* C10 *)

\* C10: a call invokes the registry at most once, and only with vies_check
\* set, a country code of the EU VAT area, a candidate that is not None and
\* every local step passed; the remote step is run exactly when it is invoked.
C10_RemoteCallGating ==
    \A t \in Callers :
        /\ remote_calls[t] <= 1
        /\ HasRun(t, "remote") <=> remote_calls[t] = 1
        /\ remote_calls[t] = 1 =>
              /\ vies_check
              /\ value[t] # None
              /\ country[t] \in ListSet(EU_VAT_AREA)
              /\ FirstFailing(value[t]) = "none"
              /\ HasRun(t, "structural") /\ HasRun(t, "allowlist")
              /\ HasRun(t, "recognition") /\ HasRun(t, "syntax")
              /\ country[t] \in {NL, BE} => HasRun(t, "checksum")

C10_Witness ==
    \E t \in Callers :
        /\ Done(t) /\ remote_calls[t] = 1
        /\ country[t] = BE
        /\ evaluated[t] = StepOrder

====
